---- MODULE Spec2Model ----
(***************************************************************************)
(* A model of the three classes of the PINN framework:                     *)
(*   PINNFramework/models/pennesmodel.py   PennesHPM                       *)
(*   PINNFramework/models/Finger_Net.py    FingerNet                       *)
(*   PINNFramework/LossTerm.py             LossTerm                        *)
(*                                                                         *)
(* Tensors are sequences of integers (a float tensor holding integral      *)
(* values, on which x.long() changes nothing); a 2-D parameter field is a  *)
(* function [0..GridW-1 -> [0..GridH-1 -> Int]].  The 640 x 480 grid of    *)
(* the source is scaled down to GridW x GridH.  Input batches are on the   *)
(* device of the model and a CUDA device is present.                       *)
(***************************************************************************)
EXTENDS Integers, Sequences, FiniteSets, TLC

\* ---------------------------------------------------------------- bounds
GridW == 2
GridH == 2
MaxBatch == 2
MaxSeed == 1

\* ------------------------------------------------------ program constants
U_BLOOD_DEFAULT == 37

VARIABLES
    \* PennesHPM
    config,        \* self.config: [convection, linear_u]
    u_blood,       \* self.u_blood
    params,        \* the coefficient attributes that exist: name -> [data, device]
    derivatives,   \* the batch handed to the next call: a sequence of 9-column rows
    op,            \* the last method called on the model ("none" before any)
    out,           \* what that call returned
    err,           \* the exception it raised ("none" if it returned)
    accessed,      \* the coefficient attributes that call looked up on self
    \* FingerNet
    fn_state,      \* "absent", "constructed", or "raised" (the constructor raised)
    fn_args,       \* the arguments of the last FingerNet(...) call
    fn_obj,        \* the attributes that call set on self before it ended
    fn_exc,        \* the exception that call raised ("none" if it returned)
    \* LossTerm
    lt_state,      \* "absent", "constructed", or "raised"
    lt_args,       \* the arguments of the last LossTerm(...) call
    lt,            \* the attributes of the term: norm, dataset, weight
    lt_eval        \* the last evaluation term.norm(prediction, target)

pennesVars == <<config, u_blood, params, derivatives, op, out, err, accessed>>
fingerVars == <<fn_state, fn_args, fn_obj, fn_exc>>
lossVars == <<lt_state, lt_args, lt, lt_eval>>
vars == <<config, u_blood, params, derivatives, op, out, err, accessed,
          fn_state, fn_args, fn_obj, fn_exc, lt_state, lt_args, lt, lt_eval>>

\* ------------------------------------------------------------ tensor helpers
\* torch.randn([640,480]): the draw-th tensor the generator yields from `seed`.
Randn(seed, draw) ==
    [i \in 0..(GridW - 1) |->
        [j \in 0..(GridH - 1) |-> ((3 * seed + 4 * draw + i + 2 * j) % 5) - 2]]

\* torch.nn.functional.relu on one element.
Relu(v) == IF v > 0 THEN v ELSE 0

\* derivatives[:, c].view(-1): column c (0-based, as in the source) of a batch.
Column(d, c) == [r \in 1..Len(d) |-> d[r][c + 1]]

\* x.long() on one element of a tensor holding integral values.
Long(v) == v

\* An index i is valid for a dimension of size n iff -n <= i < n.
IndexOK(i, n) == (0 - n) <= i /\ i < n

\* A negative index counts from the end.
WrapIndex(i, n) == IF i < 0 THEN i + n ELSE i

IndicesOK(xs, ys) ==
    \A r \in 1..Len(xs) : IndexOK(xs[r], GridW) /\ IndexOK(ys[r], GridH)

\* field[x_indices, y_indices].view(-1): one element per sample.
Gather(field, xs, ys) ==
    [r \in 1..Len(xs) |-> field[WrapIndex(xs[r], GridW)][WrapIndex(ys[r], GridH)]]

\* What a call produced: a tensor, the int 0, None, or an exception.
Tensor(v) == [kind |-> "tensor", val |-> v]
IntZero == [kind |-> "int", val |-> <<0>>]
None == [kind |-> "None", val |-> <<>>]
Returned(v, reads) == [exc |-> "none", value |-> v, reads |-> reads]
Raised(e, reads) == [exc |-> e, value |-> None, reads |-> reads]

\* ------------------------------------------------------------ PennesHPM
Configs == [convection : BOOLEAN, linear_u : BOOLEAN]

\* The attributes __init__ creates, each a Parameter on the cpu.
PennesInitWrongFlag(cfg, seed) ==
    LET nconv == IF cfg.convection THEN 1 ELSE 0
        names == (IF cfg.convection THEN {"a_conv", "a_linear_u_b"} ELSE {})
                 \cup (IF cfg.linear_u THEN {"a_linear_u_w"} ELSE {})
    IN [n \in names |->
            [data |-> IF n = "a_conv" THEN Randn(seed, 0)
                      ELSE IF n = "a_linear_u_w" THEN Randn(seed, nconv)
                      ELSE Randn(seed, nconv + 1),
             device |-> "cpu"]]

PennesInit(cfg, seed) ==
    LET nconv == IF cfg.convection THEN 1 ELSE 0
        names == (IF cfg.convection THEN {"a_conv"} ELSE {})
                 \cup (IF cfg.linear_u THEN {"a_linear_u_w", "a_linear_u_b"} ELSE {})
    IN [n \in names |->
            [data |-> IF n = "a_conv" THEN Randn(seed, 0)
                      ELSE IF n = "a_linear_u_w" THEN Randn(seed, nconv)
                      ELSE Randn(seed, nconv + 1),
             device |-> "cpu"]]

HasAttr(name) == name \in DOMAIN params

\* self.convection(d)
ConvectionResultNoClamp(d) ==
    LET u_xx == Column(d, 6)
        u_yy == Column(d, 7)
        x_indices == [r \in 1..Len(d) |-> Long(Column(d, 3)[r])]
        y_indices == [r \in 1..Len(d) |-> Long(Column(d, 4)[r])]
    IN IF ~HasAttr("a_conv") THEN Raised("AttributeError", {"a_conv"})
       ELSE IF ~IndicesOK(x_indices, y_indices) THEN Raised("IndexError", {"a_conv"})
       ELSE LET a_conv == Gather(params["a_conv"].data, x_indices, y_indices)
            IN Returned(Tensor([r \in 1..Len(d) |-> a_conv[r] * (u_xx[r] + u_yy[r])]),
                        {"a_conv"})

ConvectionResult(d) ==
    LET u_xx == Column(d, 6)
        u_yy == Column(d, 7)
        x_indices == [r \in 1..Len(d) |-> Long(Column(d, 3)[r])]
        y_indices == [r \in 1..Len(d) |-> Long(Column(d, 4)[r])]
    IN IF ~HasAttr("a_conv") THEN Raised("AttributeError", {"a_conv"})
       ELSE IF ~IndicesOK(x_indices, y_indices) THEN Raised("IndexError", {"a_conv"})
       ELSE LET g == Gather(params["a_conv"].data, x_indices, y_indices)
                a_conv == [r \in 1..Len(d) |-> Relu(g[r])]
            IN Returned(Tensor([r \in 1..Len(d) |-> a_conv[r] * (u_xx[r] + u_yy[r])]),
                        {"a_conv"})

\* self.linear_u(d)
LinearUResultNoParens(d) ==
    LET x_indices == [r \in 1..Len(d) |-> Long(Column(d, 3)[r])]
        y_indices == [r \in 1..Len(d) |-> Long(Column(d, 4)[r])]
        u_values == Column(d, 5)
    IN IF ~HasAttr("a_linear_u_w") THEN Raised("AttributeError", {"a_linear_u_w"})
       ELSE IF ~IndicesOK(x_indices, y_indices)
            THEN Raised("IndexError", {"a_linear_u_w"})
       ELSE IF ~HasAttr("a_linear_u_b")
            THEN Raised("AttributeError", {"a_linear_u_w", "a_linear_u_b"})
       ELSE LET a_linear_u_w == Gather(params["a_linear_u_w"].data, x_indices, y_indices)
                a_linear_u_b == Gather(params["a_linear_u_b"].data, x_indices, y_indices)
            IN Returned(Tensor([r \in 1..Len(d) |->
                            a_linear_u_w[r] * u_values[r] - u_blood + a_linear_u_b[r]]),
                        {"a_linear_u_w", "a_linear_u_b"})

LinearUResult(d) ==
    LET x_indices == [r \in 1..Len(d) |-> Long(Column(d, 3)[r])]
        y_indices == [r \in 1..Len(d) |-> Long(Column(d, 4)[r])]
        u_values == Column(d, 5)
    IN IF ~HasAttr("a_linear_u_w") THEN Raised("AttributeError", {"a_linear_u_w"})
       ELSE IF ~IndicesOK(x_indices, y_indices)
            THEN Raised("IndexError", {"a_linear_u_w"})
       ELSE IF ~HasAttr("a_linear_u_b")
            THEN Raised("AttributeError", {"a_linear_u_w", "a_linear_u_b"})
       ELSE LET a_linear_u_w == Gather(params["a_linear_u_w"].data, x_indices, y_indices)
                a_linear_u_b == Gather(params["a_linear_u_b"].data, x_indices, y_indices)
            IN Returned(Tensor([r \in 1..Len(d) |->
                            a_linear_u_w[r] * (u_values[r] - u_blood) + a_linear_u_b[r]]),
                        {"a_linear_u_w", "a_linear_u_b"})

\* predicted_u_t += term: 0 + tensor is the tensor, tensor + tensor is elementwise.
Accumulate(acc, term) ==
    IF acc.kind = "int" THEN term
    ELSE Tensor([r \in 1..Len(acc.val) |-> acc.val[r] + term.val[r]])

\* self.forward(d)
ForwardResultIgnoringFlags(d) ==
    LET c == ConvectionResult(d)
    IN IF c.exc # "none" THEN Raised(c.exc, c.reads)
       ELSE LET l == LinearUResult(d)
            IN IF l.exc # "none" THEN Raised(l.exc, c.reads \cup l.reads)
               ELSE Returned(Accumulate(Accumulate(IntZero, c.value), l.value),
                             c.reads \cup l.reads)

ForwardResultOverwrite(d) ==
    LET c == IF config.convection THEN ConvectionResult(d) ELSE Returned(IntZero, {})
    IN IF c.exc # "none" THEN Raised(c.exc, c.reads)
       ELSE IF ~config.linear_u THEN c
       ELSE LET l == LinearUResult(d)
            IN IF l.exc # "none" THEN Raised(l.exc, c.reads \cup l.reads)
               ELSE Returned(l.value, c.reads \cup l.reads)

ForwardResult(d) ==
    LET predicted_u_t == IntZero
        c == IF config.convection THEN ConvectionResult(d) ELSE Returned(IntZero, {})
    IN IF c.exc # "none" THEN Raised(c.exc, c.reads)
       ELSE LET acc1 == IF config.convection
                        THEN Accumulate(predicted_u_t, c.value)
                        ELSE predicted_u_t
            IN IF ~config.linear_u THEN Returned(acc1, c.reads)
               ELSE LET l == LinearUResult(d)
                    IN IF l.exc # "none" THEN Raised(l.exc, c.reads \cup l.reads)
                       ELSE Returned(Accumulate(acc1, l.value), c.reads \cup l.reads)

\* The samples a batch is made of: the temperature field and its derivatives at
\* a grid position, in the layout [x, y, t, x_index, y_index, u, u_xx, u_yy, u_t].
Sample(xi, yi) ==
    << 10 * xi, 10 * yi, 0, xi, yi,
       IF (xi + yi) % 2 = 0 THEN 40 ELSE 36,
       1 + yi,
       (0 - 1) - (xi % 2),
       5 >>

\* One sample per grid cell, and two whose x index is one step outside the
\* grid: -1, which counts from the end, and GridW, which is out of range.
Samples ==
    { Sample(xi, yi) : xi \in 0..(GridW - 1), yi \in 0..(GridH - 1) }
    \cup { Sample(0 - 1, 0), Sample(GridW, 0) }

\* The u_blood arguments of the constructor: the default and one other.
BloodTemperatures == {U_BLOOD_DEFAULT, 35}

\* The data loader starts a new batch.
NewBatch ==
    /\ derivatives' = <<>>
    /\ op' = "none" /\ out' = None /\ err' = "none" /\ accessed' = {}
    /\ UNCHANGED <<config, u_blood, params, fingerVars, lossVars>>

\* The data loader adds a sample to the batch.
AddSample(row) ==
    /\ Len(derivatives) < MaxBatch
    /\ derivatives' = Append(derivatives, row)
    /\ op' = "none" /\ out' = None /\ err' = "none" /\ accessed' = {}
    /\ UNCHANGED <<config, u_blood, params, fingerVars, lossVars>>

Call(name, r) ==
    /\ op' = name
    /\ out' = r.value
    /\ err' = r.exc
    /\ accessed' = r.reads

ConvectionInPlace ==
    /\ Call("convection", ConvectionResult(derivatives))
    /\ params' = IF HasAttr("a_conv")
                 THEN [params EXCEPT !["a_conv"].data =
                          [i \in 0..(GridW - 1) |->
                              [j \in 0..(GridH - 1) |-> Relu(@[i][j])]]]
                 ELSE params
    /\ UNCHANGED <<config, u_blood, derivatives, fingerVars, lossVars>>

Convection ==
    /\ Call("convection", ConvectionResult(derivatives))
    /\ UNCHANGED <<config, u_blood, params, derivatives, fingerVars, lossVars>>

LinearU ==
    /\ Call("linear_u", LinearUResult(derivatives))
    /\ UNCHANGED <<config, u_blood, params, derivatives, fingerVars, lossVars>>

Forward ==
    /\ Call("forward", ForwardResult(derivatives))
    /\ UNCHANGED <<config, u_blood, params, derivatives, fingerVars, lossVars>>

\* self.cuda(): Module.cuda() moves every registered Parameter; the guarded
\* assignments then look the moved attributes up again (x.cuda() of a tensor
\* already on the device is x itself).
Cuda ==
    LET reads == (IF config.convection THEN {"a_conv"} ELSE {})
                 \cup (IF config.linear_u THEN {"a_linear_u_w", "a_linear_u_b"} ELSE {})
    IN /\ params' = [n \in DOMAIN params |-> [params[n] EXCEPT !.device = "cuda"]]
       /\ Call("cuda", IF reads \subseteq DOMAIN params
                       THEN Returned(None, reads)
                       ELSE Raised("AttributeError", reads))
       /\ UNCHANGED <<config, u_blood, derivatives, fingerVars, lossVars>>

NextPennes ==
    \/ NewBatch
    \/ \E row \in Samples : AddSample(row)
    \/ Convection
    \/ LinearU
    \/ Forward
    \/ Cuda

\* ------------------------------------------------------------ FingerNet
\* nn.Linear(in_features, out_features), created on the cpu.
Linear(n_in, n_out) == [in_features |-> n_in, out_features |-> n_out, device |-> "cpu"]

\* torch.tensor(v).float(), created on the cpu.
FloatTensor(v) == [data |-> v, device |-> "cpu"]

\* An object no attribute has been set on: attrs is the set of attribute names
\* that exist, the other fields hold the attributes' values.
BlankFingerNet ==
    [attrs |-> {}, input_size |-> 0, num_finger_layers |-> 0, numFeatures |-> 0,
     numLayers |-> 0, lin_layers |-> <<>>, lb |-> FloatTensor(<<>>),
     ub |-> FloatTensor(<<>>), activation |-> "", normalize |-> FALSE,
     scaling |-> 0, output_size |-> 0, finger_nets |-> <<>>, in_x |-> <<>>,
     outut_size |-> 0]

NoFingerArgs ==
    [lb |-> <<>>, ub |-> <<>>, inputSize |-> 0, outputSize |-> 0, numFeatures |-> 0,
     num_finger_layers |-> 0, numLayers |-> 0, normalize |-> FALSE, scaling |-> 0]

Ended(obj, exc) == [obj |-> obj, exc |-> exc]

\* The for loop of init_layers over range(self.input_size), from iteration i.
\* self.in_x is looked up on self: AttributeError unless the attribute exists.
RECURSIVE FingerLoop(_, _)
FingerLoop(self, i) ==
    IF i >= self.input_size THEN Ended(self, "none")
    ELSE LET s1 == [self EXCEPT !.finger_nets = Append(@, <<>>)]
         IN IF "in_x" \notin s1.attrs THEN Ended(s1, "AttributeError: in_x")
            ELSE LET s2 == [s1 EXCEPT
                             !.in_x = Append(@, Linear(1, s1.numFeatures)),
                             !.finger_nets[i + 1] =
                                 [k \in 1..s1.num_finger_layers |->
                                     Linear(s1.numFeatures, s1.numFeatures)]]
                 IN FingerLoop(s2, i + 1)

\* self.init_layers(): the finger loop, then the trunk. self.outut_size is
\* looked up on self: AttributeError unless the attribute exists. The xavier
\* initialisations that follow change weights only.
InitLayers(self) ==
    LET s1 == [self EXCEPT !.finger_nets = <<>>, !.lin_layers = <<>>,
                           !.attrs = @ \cup {"finger_nets", "lin_layers"}]
        fingers == FingerLoop(s1, 0)
    IN IF fingers.exc # "none" THEN fingers
       ELSE LET s2 == fingers.obj
                first == Linear(s2.input_size * s2.numFeatures, s2.numFeatures)
                s3 == [s2 EXCEPT !.lin_layers =
                          <<first>> \o [k \in 1..s2.numLayers |->
                              Linear(s2.numFeatures, s2.numFeatures)]]
            IN IF "outut_size" \notin s3.attrs
               THEN Ended(s3, "AttributeError: outut_size")
               ELSE Ended([s3 EXCEPT !.lin_layers =
                              Append(@, Linear(s3.numFeatures, s3.outut_size))],
                          "none")

\* FingerNet(lb, ub, inputSize, outputSize, numFeatures, num_finger_layers,
\*           numLayers, activation, normalize, scaling)
FingerNetInit(a) ==
    LET self == [BlankFingerNet EXCEPT
                    !.input_size = a.inputSize,
                    !.num_finger_layers = 3,
                    !.numFeatures = a.numFeatures,
                    !.numLayers = a.numLayers,
                    !.lin_layers = <<>>,
                    !.lb = FloatTensor(a.lb),
                    !.ub = FloatTensor(a.ub),
                    !.activation = "relu",
                    !.normalize = a.normalize,
                    !.scaling = a.scaling,
                    !.output_size = a.outputSize,
                    !.attrs = {"input_size", "num_finger_layers", "numFeatures",
                               "numLayers", "lin_layers", "lb", "ub", "activation",
                               "normalize", "scaling", "output_size"}]
    IN InitLayers(self)

\* self.to(device), and with it self.cuda() and self.cpu(): Module.to moves the
\* parameters of the registered sub-modules (lin_layers is a ModuleList;
\* finger_nets is a plain list, which Module.to does not see), then lb and ub
\* are moved by hand.
FingerTo(self, device) ==
    [self EXCEPT
        !.lin_layers = [k \in 1..Len(@) |-> [@[k] EXCEPT !.device = device]],
        !.lb = [@ EXCEPT !.device = device],
        !.ub = [@ EXCEPT !.device = device]]

FingerCuda(self) == FingerTo(self, "cuda")
FingerCpu(self) == FingerTo(self, "cpu")

Devices == {"cpu", "cuda"}

MaxInputSize == 2
MaxTrunkDepth == 2

FingerArgs ==
    { [lb |-> [i \in 1..n |-> 0], ub |-> [i \in 1..n |-> 1], inputSize |-> n,
       outputSize |-> o, numFeatures |-> f, num_finger_layers |-> d,
       numLayers |-> t, normalize |-> z, scaling |-> c] :
        n \in 1..MaxInputSize, o \in {1, 2}, f \in {2, 4}, d \in {1, 3},
        t \in 0..MaxTrunkDepth, z \in BOOLEAN, c \in {1, 2} }

\* A client constructs a FingerNet.
FingerNetConstruct(a) ==
    LET r == FingerNetInit(a)
    IN /\ fn_args' = a
       /\ fn_obj' = r.obj
       /\ fn_exc' = r.exc
       /\ fn_state' = IF r.exc = "none" THEN "constructed" ELSE "raised"
       /\ UNCHANGED <<pennesVars, lossVars>>

NextFinger ==
    \E a \in FingerArgs : FingerNetConstruct(a)

\* ------------------------------------------------------------ LossTerm
\* Python values a norm argument can be: a str, or a callable given by name.
Str(v) == [type |-> "str", v |-> v]
Callable(v) == [type |-> "function", v |-> v]
\* The loss modules of the library.
MSELoss == [type |-> "MSELoss", v |-> ""]
L1Loss == [type |-> "L1Loss", v |-> ""]

NoLossTerm == [norm |-> Str(""), dataset |-> "", weight |-> 0]
NoLossArgs == [dataset |-> "", norm |-> Str(""), weight |-> 0]
NoEval ==
    [called |-> FALSE, prediction |-> <<>>, target |-> <<>>, exc |-> "none",
     num |-> 0, den |-> 1]

\* LossTerm(dataset, norm, weight)
LossTermInitValidating(dataset, norm, weight) ==
    IF norm = Str("L2") THEN Ended([norm |-> MSELoss, dataset |-> dataset, weight |-> weight], "none")
    ELSE IF norm = Str("L1") THEN Ended([norm |-> L1Loss, dataset |-> dataset, weight |-> weight], "none")
    ELSE IF norm.type = "str" THEN Ended(NoLossTerm, "ValueError")
    ELSE Ended([norm |-> norm, dataset |-> dataset, weight |-> weight], "none")

LossTermInit(dataset, norm, weight) ==
    LET resolved == IF norm = Str("L2") THEN MSELoss
                    ELSE IF norm = Str("L1") THEN L1Loss
                    ELSE norm
    IN Ended([norm |-> resolved, dataset |-> dataset, weight |-> weight], "none")

Abs(v) == IF v < 0 THEN 0 - v ELSE v

RECURSIVE SumSeq(_)
SumSeq(q) == IF q = <<>> THEN 0 ELSE q[1] + SumSeq(Tail(q))

RECURSIVE MaxSeq(_)
MaxSeq(q) == IF Len(q) = 1 THEN q[1]
             ELSE LET m == MaxSeq(Tail(q)) IN IF q[1] > m THEN q[1] ELSE m

\* norm(prediction, target) for two vectors of one length >= 1; a mean is kept
\* as the fraction num/den.
Evaluated(prediction, target, exc, num, den) ==
    [called |-> TRUE, prediction |-> prediction, target |-> target, exc |-> exc,
     num |-> num, den |-> den]

NormCall(norm, prediction, target) ==
    LET n == Len(prediction)
        diff == [k \in 1..n |-> prediction[k] - target[k]]
    IN IF norm.type = "MSELoss"
       THEN Evaluated(prediction, target, "none",
                      SumSeq([k \in 1..n |-> diff[k] * diff[k]]), n)
       ELSE IF norm.type = "L1Loss"
       THEN Evaluated(prediction, target, "none",
                      SumSeq([k \in 1..n |-> Abs(diff[k])]), n)
       ELSE IF norm.type = "function"
       THEN \* a self implemented norm: max |prediction - target|
            Evaluated(prediction, target, "none",
                      MaxSeq([k \in 1..n |-> Abs(diff[k])]), 1)
       ELSE Evaluated(prediction, target, "TypeError", 0, 1)

MaxVector == 2

Vectors == UNION { [1..n -> {0, 2}] : n \in 1..MaxVector }

NormSpecs == {Str("L2"), Str("L1"), Str("l2"), Str("Huber"), Callable("max_abs")}

\* A client constructs a LossTerm.
LossTermConstruct(dataset, norm, weight) ==
    LET r == LossTermInit(dataset, norm, weight)
    IN /\ lt_args' = [dataset |-> dataset, norm |-> norm, weight |-> weight]
       /\ lt' = r.obj
       /\ lt_state' = IF r.exc = "none" THEN "constructed" ELSE "raised"
       /\ lt_eval' = NoEval
       /\ UNCHANGED <<pennesVars, fingerVars>>

\* The training loop evaluates term.norm(prediction, target).
LossTermEvaluate(prediction, target) ==
    /\ lt_state = "constructed"
    /\ Len(prediction) = Len(target)
    /\ lt_eval' = NormCall(lt.norm, prediction, target)
    /\ UNCHANGED <<lt_state, lt_args, lt, pennesVars, fingerVars>>

NextLoss ==
    \/ \E dataset \in {"boundary", "pde"} : \E norm \in NormSpecs : \E weight \in {1, 10} :
           LossTermConstruct(dataset, norm, weight)
    \/ \E prediction \in Vectors : \E target \in Vectors :
           LossTermEvaluate(prediction, target)
\* ------------------------------------------------------------ specifications
\* A PennesHPM has been constructed, from any config, either blood temperature
\* and any seed of the generator; no FingerNet and no LossTerm yet.
Init ==
    /\ config \in Configs
    /\ u_blood \in BloodTemperatures
    /\ \E seed \in 0..MaxSeed : params = PennesInit(config, seed)
    /\ derivatives = <<>>
    /\ op = "none"
    /\ out = None
    /\ err = "none"
    /\ accessed = {}
    /\ fn_state = "absent"
    /\ fn_args = NoFingerArgs
    /\ fn_obj = BlankFingerNet
    /\ fn_exc = "none"
    /\ lt_state = "absent"
    /\ lt_args = NoLossArgs
    /\ lt = NoLossTerm
    /\ lt_eval = NoEval

\* The same with the PennesHPM fixed: both terms off, default blood temperature.
InitBothOff ==
    /\ config = [convection |-> FALSE, linear_u |-> FALSE]
    /\ u_blood = U_BLOOD_DEFAULT
    /\ params = PennesInit(config, 0)
    /\ derivatives = <<>>
    /\ op = "none"
    /\ out = None
    /\ err = "none"
    /\ accessed = {}
    /\ fn_state = "absent"
    /\ fn_args = NoFingerArgs
    /\ fn_obj = BlankFingerNet
    /\ fn_exc = "none"
    /\ lt_state = "absent"
    /\ lt_args = NoLossArgs
    /\ lt = NoLossTerm
    /\ lt_eval = NoEval

Next == NextPennes \/ NextFinger \/ NextLoss

Spec == Init /\ [][Next]_vars

\* One class at a time: the objects of the other two stay as they start.
SpecPennes == Init /\ [][NextPennes]_vars
SpecFinger == InitBothOff /\ [][NextFinger]_vars
SpecLoss == InitBothOff /\ [][NextLoss]_vars

\* ------------------------------------------------------------ PennesHPM claims
EnabledFields ==
    (IF config.convection THEN {"a_conv"} ELSE {})
    \cup (IF config.linear_u THEN {"a_linear_u_w", "a_linear_u_b"} ELSE {})

\* The element of a stored field a sample row addresses with its columns 3 and 4.
StoredAt(name, row) ==
    params[name].data[IF row[4] < 0 THEN GridW + row[4] ELSE row[4]]
                     [IF row[5] < 0 THEN GridH + row[5] ELSE row[5]]

RowsInRange ==
    \A r \in 1..Len(derivatives) :
        /\ derivatives[r][4] \in (0 - GridW)..(GridW - 1)
        /\ derivatives[r][5] \in (0 - GridH)..(GridH - 1)

\* C1: forward looks up only the coefficient fields whose config flag is true
\* (all of them when it returns), and with neither flag true it returns the
\* zero it started from, whatever the input.
C1_ForwardReadsOnlyEnabledFields ==
    op = "forward" =>
        /\ accessed \subseteq EnabledFields
        /\ (err = "none" => accessed = EnabledFields)
        /\ (~config.convection /\ ~config.linear_u) =>
               (err = "none" /\ out = IntZero /\ accessed = {})

C1_Witness ==
    /\ op = "forward" /\ ~config.convection /\ ~config.linear_u
    /\ Len(derivatives) = 2 /\ derivatives[1] # derivatives[2]
    /\ derivatives[2][4] = GridW
    /\ out = IntZero

\* C2 (as stated): a coefficient field exists iff its flag is true, and no call
\* of forward, convection, linear_u or cuda looks up an absent field.
C2_Original ==
    /\ DOMAIN params = EnabledFields
    /\ accessed \subseteq DOMAIN params

\* C2 (amended): a coefficient field exists iff its flag is true; forward and
\* cuda never look up an absent field; convection (linear_u) called on a model
\* whose convection (linear_u) flag is false looks up the absent a_conv
\* (a_linear_u_w) and raises AttributeError.
C2_FieldsExistIffFlag ==
    /\ DOMAIN params = EnabledFields
    /\ (op \in {"forward", "cuda"} => accessed \subseteq DOMAIN params)
    /\ (op = "convection" =>
           IF config.convection THEN accessed \subseteq DOMAIN params
           ELSE err = "AttributeError" /\ accessed = {"a_conv"})
    /\ (op = "linear_u" =>
           IF config.linear_u THEN accessed \subseteq DOMAIN params
           ELSE err = "AttributeError" /\ accessed = {"a_linear_u_w"})

C2_Witness ==
    /\ op = "cuda" /\ err = "none"
    /\ config.convection /\ ~config.linear_u
    /\ DOMAIN params = {"a_conv"}
    /\ params["a_conv"].device = "cuda"
    /\ accessed = {"a_conv"}

\* C3: convection returns, for every row of the batch, max(0, a_conv[x_idx,
\* y_idx]) * (u_xx + u_yy) with the coefficient taken at the row's own columns
\* 3 and 4 and u_xx, u_yy its columns 6 and 7: zero when the stored coefficient
\* is negative, zero when u_xx + u_yy = 0, and it returns whenever a_conv
\* exists and the indices are in range.
C3_ConvectionPerSample ==
    op = "convection" =>
        /\ (config.convection /\ RowsInRange) => err = "none"
        /\ err = "none" =>
            /\ out.kind = "tensor"
            /\ Len(out.val) = Len(derivatives)
            /\ \A r \in 1..Len(derivatives) :
                 LET stored == StoredAt("a_conv", derivatives[r])
                     laplace == derivatives[r][7] + derivatives[r][8]
                 IN /\ out.val[r] = (IF stored > 0 THEN stored ELSE 0) * laplace
                    /\ (stored < 0 => out.val[r] = 0)
                    /\ (laplace = 0 => out.val[r] = 0)

C3_Witness ==
    /\ op = "convection" /\ err = "none"
    /\ Len(derivatives) = 2
    /\ StoredAt("a_conv", derivatives[1]) < 0
    /\ derivatives[1][7] + derivatives[1][8] # 0
    /\ out.val[1] = 0
    /\ StoredAt("a_conv", derivatives[2]) > 0
    /\ out.val[2] # 0

C5_ForwardSumsEnabledTerms ==
    op = "forward" =>
        LET c == ConvectionResult(derivatives)
            l == LinearUResult(derivatives)
        IN IF config.convection /\ config.linear_u
           THEN IF c.exc = "none" /\ l.exc = "none"
                THEN /\ err = "none"
                     /\ out.kind = "tensor"
                     /\ Len(out.val) = Len(derivatives)
                     /\ \A r \in 1..Len(derivatives) :
                            out.val[r] = c.value.val[r] + l.value.val[r]
                ELSE err # "none"
           ELSE IF config.convection THEN err = c.exc /\ out = c.value
           ELSE IF config.linear_u THEN err = l.exc /\ out = l.value
           ELSE err = "none" /\ out = IntZero

C5_Witness ==
    /\ op = "forward" /\ err = "none"
    /\ config.convection /\ config.linear_u
    /\ Len(derivatives) = 2
    /\ ConvectionResult(derivatives).value.val[1] # 0
    /\ LinearUResult(derivatives).value.val[1] # 0
    /\ out.val[1] = ConvectionResult(derivatives).value.val[1]
                    + LinearUResult(derivatives).value.val[1]
    /\ out.val[1] # out.val[2]

\* C10: a call of forward, convection or linear_u, returning or raising, leaves
\* the coefficient fields, the config flags and u_blood as they were, and
\* forward called again on the same input returns what it just returned.
C10_CallsLeaveStateUnchanged ==
    [][ op' \in {"forward", "convection", "linear_u"} =>
            /\ params' = params
            /\ config' = config
            /\ u_blood' = u_blood
            /\ (op' = "forward" =>
                    ForwardResult(derivatives)' =
                        [exc |-> err', value |-> out', reads |-> accessed']) ]_vars

C10_Witness ==
    /\ op = "forward" /\ err = "none"
    /\ config.convection /\ config.linear_u
    /\ Len(derivatives) = 2
    /\ StoredAt("a_conv", derivatives[1]) < 0
    /\ params["a_conv"].device = "cuda"
    /\ out.val[2] # 0
\* ------------------------------------------------------------ FingerNet claims
\* C6: a FingerNet that has been constructed can be relocated, and after a
\* relocation to any device its bound tensors lb and ub are on the device of
\* all its parameters, those of the trunk and those of the fingers.
C6_BoundsFollowParameters ==
    fn_state # "absent" =>
        /\ fn_state = "constructed"
        /\ \A device \in Devices :
             LET moved == FingerTo(fn_obj, device)
             IN /\ moved.lb.device = device
                /\ moved.ub.device = device
                /\ \A k \in 1..Len(moved.lin_layers) :
                       moved.lin_layers[k].device = device
                /\ \A i \in 1..Len(moved.finger_nets) :
                       \A k \in 1..Len(moved.finger_nets[i]) :
                           moved.finger_nets[i][k].device = device

\* C8: a FingerNet constructed with input_size = n and finger_depth = d has
\* exactly n finger sub-networks, each a stack of d layers of its own.
C8_OneFingerPerInput ==
    fn_state # "absent" =>
        /\ fn_state = "constructed"
        /\ Len(fn_obj.finger_nets) = fn_args.inputSize
        /\ \A i \in 1..Len(fn_obj.finger_nets) :
               Len(fn_obj.finger_nets[i]) = fn_args.num_finger_layers

\* C9: a FingerNet constructed with trunk_depth = t has a trunk of exactly
\* t + 1 linear layers.
C9_TrunkDepthPlusOne ==
    fn_state # "absent" =>
        /\ fn_state = "constructed"
        /\ Len(fn_obj.lin_layers) = fn_args.numLayers + 1

\* ------------------------------------------------------------ LossTerm claims
\* C7: construction never raises and resolves the norm once: 'L2' to the
\* library's MSE loss, 'L1' to its L1 loss, anything else stored as given;
\* dataset and weight are stored as given; evaluations leave the term as
\* constructed; an unrecognized string fails only when the norm is evaluated,
\* with a TypeError, and every other norm evaluates.
C7_NormResolvedAtConstruction ==
    /\ lt_state # "raised"
    /\ lt_state = "constructed" =>
        /\ lt.norm = (IF lt_args.norm = [type |-> "str", v |-> "L2"]
                      THEN [type |-> "MSELoss", v |-> ""]
                      ELSE IF lt_args.norm = [type |-> "str", v |-> "L1"]
                      THEN [type |-> "L1Loss", v |-> ""]
                      ELSE lt_args.norm)
        /\ lt.dataset = lt_args.dataset
        /\ lt.weight = lt_args.weight
        /\ lt_eval.called =>
              ((lt_eval.exc = "TypeError")
                  <=> (lt_args.norm.type = "str" /\ lt_args.norm.v \notin {"L1", "L2"}))

C7_Witness ==
    /\ lt_state = "constructed"
    /\ lt_args.norm = [type |-> "str", v |-> "l2"]
    /\ lt.norm = [type |-> "str", v |-> "l2"]
    /\ lt_eval.called
    /\ lt_eval.exc = "TypeError"
====
